---- MODULE Spec2Model ----
(***************************************************************************)
(* Othello (Reversi) environment of idearendil/othello_forRL.              *)
(*                                                                         *)
(* Two engines appear in the repository:                                   *)
(*   - the baseline engine, src/othello.py (OthelloEnv.step), modelled     *)
(*     line by line, Python/numpy indexing included;                       *)
(*   - the faster engine (faster_othello), which the drivers of            *)
(*     src/faster_test.py and src/speed_test.py import but whose file is   *)
(*     not among the sources; it is modelled from the design document      *)
(*     (sections 4.1 - 4.4).                                               *)
(*                                                                         *)
(* A plane (one channel of a numpy array of 0/1) is the set of cells that  *)
(* hold 1.  A board is a function from the channel index to its plane.     *)
(***************************************************************************)
EXTENDS Integers, Sequences, FiniteSets, TLC

\* Number of successful driver moves the model follows on the small board.
MaxMoves == 6

\* Number of successful driver moves the model follows on the default board.
MaxMovesDefault == 3

\* Number of cells by which an action coordinate may miss the board.
MaxOff == 1

\* Number of ids beyond the two players that a caller may pass as agent_id.
MaxBadId == 1

\* OthelloEnv.board_size: int = 8
DefaultBoardSize == 8

\* The board sizes the model instantiates: the default one, and a small one
\* (board_size overridden) on which whole games are within reach.
BoardSizes == {4, DefaultBoardSize}

VARIABLES
    board_size,  \* OthelloEnv.board_size of the environment in use
    state,   \* the GameState the driver holds (board, legal_actions, done)
    pc,      \* driver position: "for" (inside the loop), "exit" (the loop was
             \* left with state.done), "end" (the run ended in a baseline call)
    i,       \* index into agents of the agent whose turn the for loop is at
    moves,   \* number of successful driver steps so far
    call     \* the last event: a call of step (either engine) or a jump

vars == <<board_size, state, pc, i, moves, call>>

Rows == 0 .. (board_size - 1)

Cells == Rows \X Rows

Players == {0, 1}

\* Python's None, and a returned object.
None == <<>>

Some(x) == <<x>>

(***************************************************************************)
(* Python / numpy indexing of an axis of length n: a negative index counts *)
(* from the end, anything else outside raises IndexError.                  *)
(***************************************************************************)
Indexable(k, n) == (-n) <= k /\ k < n

PyIdx(k, n) == IF k < 0 THEN k + n ELSE k

\* The cell that board[..][r][c] designates.
CellAt(r, c) == <<PyIdx(r, board_size), PyIdx(c, board_size)>>

(***************************************************************************)
(* OthelloEnv._check_in_range with the default bottom_right.               *)
(***************************************************************************)
CheckInRangeNoLower(r, c) == r < board_size /\ c < board_size

_check_in_range(r, c) ==
    /\ 0 <= r /\ 0 <= c
    /\ r < board_size /\ c < board_size

\* directions, in the order step walks them.
directions ==
    << <<1, 1>>, <<1, 0>>, <<1, -1>>, <<0, -1>>,
       <<-1, -1>>, <<-1, 0>>, <<-1, 1>>, <<0, 1>> >>

(***************************************************************************)
(* The inner loop of step, lines 217-230: at most board_size - 1 steps     *)
(* from (temp_r, temp_c) along dir, reading state.board b.  n is the       *)
(* number of iterations left, stones is stones_to_flip.                    *)
(*   kind "IndexError": an index left the axis on the high side;           *)
(*   kind "closed":     a stone of agent_id ended the walk (line 222);     *)
(*   kind "open":       an empty cell ended it (line 229), or the range    *)
(*                      was exhausted.                                     *)
(***************************************************************************)
RECURSIVE ScanDir(_, _, _, _, _, _, _)
ScanDir(b, agent_id, temp_r, temp_c, dir, n, stones) ==
    IF n = 0
    THEN [kind |-> "open", stones |-> stones]
    ELSE LET tr == temp_r + dir[1]
             tc == temp_c + dir[2]
         IN  IF ~Indexable(tr, board_size) \/ ~Indexable(tc, board_size)
             THEN [kind |-> "IndexError", stones |-> stones]
             ELSE IF CellAt(tr, tc) \in b[1 - agent_id]
             THEN ScanDir(b, agent_id, tr, tc, dir, n - 1,
                          stones \cup {CellAt(tr, tc)})
             ELSE IF CellAt(tr, tc) \in b[agent_id]
             THEN [kind |-> "closed", stones |-> stones]
             ELSE [kind |-> "open", stones |-> stones]

(***************************************************************************)
(* Lines 225-227: every stone of stones_to_flip leaves the opponent's      *)
(* channel and enters agent_id's channel of the local board.               *)
(***************************************************************************)
FlipKeepOpponent(b, agent_id, stones) ==
    [b EXCEPT ![agent_id] = @ \cup stones]

FlipStones(b, agent_id, stones) ==
    [b EXCEPT ![1 - agent_id] = @ \ stones, ![agent_id] = @ \cup stones]

(***************************************************************************)
(* Line 208, board = np.copy(state.board).  The heap holds the arrays of   *)
(* the input state under "board" and "legal_actions"; np.copy allocates a  *)
(* new array "fresh" with the same contents and returns a reference to it. *)
(***************************************************************************)
CopyAlias(heap) == [ref |-> "board", heap |-> heap]

np_copy(heap) ==
    [ref  |-> "fresh",
     heap |-> [board         |-> heap.board,
               legal_actions |-> heap.legal_actions,
               fresh         |-> heap.board]]

(***************************************************************************)
(* The loop over directions, lines 212-230.  Reads go to state.board       *)
(* (heap.board), writes to the local board (heap[ref]).  k is the index of *)
(* the next direction.  An IndexError leaves the loop at once.             *)
(***************************************************************************)
RECURSIVE DirLoop(_, _, _, _, _, _, _)
DirLoop(heap, ref, agent_id, r, c, k, flipped) ==
    IF k > Len(directions)
    THEN [exc |-> "none", heap |-> heap, flipped |-> flipped]
    ELSE LET scan == ScanDir(heap.board, agent_id, r, c, directions[k],
                             board_size - 1, {})
         IN  IF scan.kind = "IndexError"
             THEN [exc |-> "IndexError", heap |-> heap, flipped |-> flipped]
             ELSE IF scan.kind = "closed" /\ scan.stones # {}
             THEN DirLoop([heap EXCEPT ![ref] =
                               FlipStones(@, agent_id, scan.stones)],
                          ref, agent_id, r, c, k + 1, TRUE)
             ELSE DirLoop(heap, ref, agent_id, r, c, k + 1, flipped)

(***************************************************************************)
(* What a call of step leaves behind:                                      *)
(*   outcome  "ok" when the function ran to its end, else the failure:     *)
(*            the four ValueErrors by what they report, or "IndexError";   *)
(*   input    the input state as it is after the call;                     *)
(*   board    the local array `board` when the function was left;          *)
(*   ret      the value returned (None when nothing was);                  *)
(*   accessed whether any cell of a board array was indexed.               *)
(***************************************************************************)
Result(st, heap, ref, outcome, ret, accessed) ==
    [outcome  |-> outcome,
     input    |-> [board         |-> heap.board,
                   legal_actions |-> heap.legal_actions,
                   done          |-> st.done],
     board    |-> heap[ref],
     ret      |-> ret,
     accessed |-> accessed]

(***************************************************************************)
(* Lines 203-206: the target holds a stone of the opponent ("cannot put a  *)
(* stone on opponent's stone") or of the agent itself ("cannot put a stone *)
(* on another stone").  Both are the occupied-cell failure.                *)
(***************************************************************************)
OnOpponentStone(st, agent_id, r, c) ==
    CellAt(r, c) \in st.board[PyIdx(1 - agent_id, 2)]

OwnStoneUnchecked(st, agent_id, r, c) == FALSE

OnOwnStone(st, agent_id, r, c) == CellAt(r, c) \in st.board[PyIdx(agent_id, 2)]

(***************************************************************************)
(* Line 201: not 0 <= agent_id <= 1 raises "invalid agent_id".             *)
(***************************************************************************)
AgentAtMostOne(agent_id) == agent_id <= 1

ValidAgent(agent_id) == 0 <= agent_id /\ agent_id <= 1

(***************************************************************************)
(* OthelloEnv.step of src/othello.py, lines 196-237 (no callbacks given).  *)
(* The function ends after the check of line 232 without a return          *)
(* statement: the stone is never put on (r, c), legal_actions and done are *)
(* not computed, and the caller receives None.                             *)
(***************************************************************************)
step(st, agent_id, action) ==
    LET r  == action[1]
        c  == action[2]
        h0 == [board |-> st.board, legal_actions |-> st.legal_actions]
    IN  IF ~_check_in_range(r, c)
        THEN Result(st, h0, "board", "OutOfBounds", None, FALSE)
        ELSE IF ~ValidAgent(agent_id)
        THEN Result(st, h0, "board", "InvalidPlayer", None, FALSE)
        ELSE IF \/ ~Indexable(1 - agent_id, 2)
                \/ ~Indexable(r, board_size) \/ ~Indexable(c, board_size)
        THEN Result(st, h0, "board", "IndexError", None, TRUE)
        ELSE IF OnOpponentStone(st, agent_id, r, c)
        THEN Result(st, h0, "board", "CellOccupied", None, TRUE)
        ELSE IF ~Indexable(agent_id, 2)
        THEN Result(st, h0, "board", "IndexError", None, TRUE)
        ELSE IF OnOwnStone(st, agent_id, r, c)
        THEN Result(st, h0, "board", "CellOccupied", None, TRUE)
        ELSE LET cp   == np_copy(h0)
                 loop == DirLoop(cp.heap, cp.ref, agent_id, r, c, 1, FALSE)
             IN  IF loop.exc = "IndexError"
                 THEN Result(st, loop.heap, cp.ref, "IndexError", None, TRUE)
                 ELSE IF ~loop.flipped
                 THEN Result(st, loop.heap, cp.ref, "IllegalMove", None, TRUE)
                 ELSE Result(st, loop.heap, cp.ref, "ok", None, TRUE)

(***************************************************************************)
(* np.fliplr of a plane: the columns (axis 1) in reverse order.            *)
(***************************************************************************)
np_fliplr(plane) == {<<cell[1], board_size - 1 - cell[2]>> : cell \in plane}

(***************************************************************************)
(* np.stack(arrays, axis) as line 137 calls it: the second plane is handed *)
(* over as the axis argument.  An axis that is an array of more than one   *)
(* element is no integer, and np.stack raises TypeError.                   *)
(***************************************************************************)
np_stack(arrays, axis) ==
    [outcome |-> "TypeError", ret |-> None,
     board   |-> [p \in Players |-> IF p = 0 THEN arrays ELSE axis]]

(***************************************************************************)
(* OthelloState.perspective, lines 134-142.  For agent 0 the board array   *)
(* itself is returned; for any other id the two mirrored planes, opponent  *)
(* first, go to np.stack.  board holds what was returned, or the two       *)
(* arrays that were handed to np.stack.                                    *)
(***************************************************************************)
perspective(st, agent_id) ==
    LET res == IF agent_id = 0
               THEN [outcome |-> "ok", ret |-> Some(st.board),
                     board |-> st.board]
               ELSE np_stack(np_fliplr(st.board[1]), np_fliplr(st.board[0]))
    IN  [outcome  |-> res.outcome,
         input    |-> st,
         board    |-> res.board,
         ret      |-> res.ret,
         accessed |-> TRUE]

(***************************************************************************)
(* The faster engine (faster_othello.OthelloEnv and OthelloState), from    *)
(* the design document.                                                    *)
(***************************************************************************)

OnBoard(r, c) == r \in Rows /\ c \in Rows

(***************************************************************************)
(* Section 4.2: the run of opposing stones met from cell along dir, at     *)
(* most board_size - 1 steps, never leaving the board.  The result is the  *)
(* run when a stone of player p closes it, and {} otherwise.               *)
(***************************************************************************)
RECURSIVE Walk(_, _, _, _, _, _, _)
Walk(b, p, r, c, dir, n, acc) ==
    LET nr == r + dir[1]
        nc == c + dir[2]
    IN  IF n = 0 \/ ~OnBoard(nr, nc)
        THEN {}
        ELSE IF <<nr, nc>> \in b[1 - p]
        THEN Walk(b, p, nr, nc, dir, n - 1, acc \cup {<<nr, nc>>})
        ELSE IF <<nr, nc>> \in b[p]
        THEN acc
        ELSE {}

Run(b, p, cell, dir) == Walk(b, p, cell[1], cell[2], dir, board_size - 1, {})

Dirs == {directions[k] : k \in 1 .. Len(directions)}

\* All stones that a stone of p on cell captures.
Captured(b, p, cell) == UNION {Run(b, p, cell, d) : d \in Dirs}

Occupied(b) == b[0] \cup b[1]

\* Section 4.2: the legal-move plane of player p on board b.
LegalPlane(b, p) ==
    {cell \in Cells \ Occupied(b) : Captured(b, p, cell) # {}}

\* Section 4.4: the state built on a board.
MakeState(b) ==
    LET legal == [p \in Players |-> LegalPlane(b, p)]
    IN  [board         |-> b,
         legal_actions |-> legal,
         done          |-> (legal[0] = {} /\ legal[1] = {})]

InitializeAdjacent ==
    LET h == board_size \div 2
    IN  MakeState([p \in Players |->
                      IF p = 0 THEN {<<h, h - 1>>, <<h, h>>}
                               ELSE {<<h - 1, h - 1>>, <<h - 1, h>>}])

\* Section 4.1 and the scenario of section 8: the four central stones, with
\* player 1 on the main diagonal, so that player 0 on (2,3) captures (3,3).
initialize_state ==
    LET h == board_size \div 2
    IN  MakeState([p \in Players |->
                      IF p = 0 THEN {<<h, h - 1>>, <<h - 1, h>>}
                               ELSE {<<h - 1, h - 1>>, <<h, h>>}])

\* Section 4.4: need_jump(player).
need_jump(st, agent_id) == st.legal_actions[agent_id] = {}

\* Section 4.3: placement and capture on a legal move.
Place(b, p, cell) ==
    [b EXCEPT ![p] = @ \cup {cell} \cup Captured(b, p, cell),
              ![1 - p] = @ \ Captured(b, p, cell)]

(***************************************************************************)
(* Sections 4.3 and 4.4: step of the faster engine.  It works on values:   *)
(* the input state is never written.                                       *)
(***************************************************************************)
faster_step(st, agent_id, action) ==
    LET r == action[1]
        c == action[2]
        fail(what) == [outcome |-> what, input |-> st, board |-> st.board,
                       ret |-> None, accessed |-> FALSE]
    IN  IF ~OnBoard(r, c) THEN fail("OutOfBounds")
        ELSE IF agent_id \notin Players THEN fail("InvalidPlayer")
        ELSE IF <<r, c>> \in Occupied(st.board)
        THEN [fail("CellOccupied") EXCEPT !.accessed = TRUE]
        ELSE IF <<r, c>> \notin st.legal_actions[agent_id]
        THEN [fail("IllegalMove") EXCEPT !.accessed = TRUE]
        ELSE LET nb == Place(st.board, agent_id, <<r, c>>)
             IN  [outcome |-> "ok", input |-> st, board |-> nb,
                  ret |-> Some(MakeState(nb)), accessed |-> TRUE]

(***************************************************************************)
(* The driver: run of src/faster_test.py (and run_faster of                *)
(* src/speed_test.py).                                                     *)
(***************************************************************************)

\* agents = [RandomAgent(1), RandomAgent(0)], by agent_id
agents == <<1, 0>>

\* RandomAgent._get_all_actions: the cells marked in the agent's own plane.
_get_all_actions(st, agent_id) == st.legal_actions[agent_id]

\* What a caller of step may pass.
AgentIds == (0 - MaxBadId) .. (1 + MaxBadId)

Coords == (0 - MaxOff) .. (board_size - 1 + MaxOff)

(***************************************************************************)
(* The keyword arguments pre_step_fn and post_step_fn of step (lines       *)
(* 161-166): TRUE when a callback is given, FALSE when it is left None.    *)
(***************************************************************************)
NoFns == [pre_step_fn |-> FALSE, post_step_fn |-> FALSE]

\* What a caller of step passes for them: both callbacks, or neither.
Fns == {[pre_step_fn |-> given, post_step_fn |-> given] : given \in BOOLEAN}

(***************************************************************************)
(* The callbacks that one call of step runs, in order, each with the       *)
(* arguments it gets.  Lines 193-194 run pre_step_fn, when given, on the   *)
(* state, agent_id and action as they came in, before anything else.  No   *)
(* line of the function calls post_step_fn.                                *)
(***************************************************************************)
step_calls(st, agent_id, action, fns) ==
    IF fns.pre_step_fn
    THEN << [fn |-> "pre_step_fn", state |-> st,
             agent_id |-> agent_id, action |-> action] >>
    ELSE << >>

(***************************************************************************)
(* The record of a call step(st, agent_id, action): before is the value of *)
(* the state handed in, taken before the call; the rest is what the call   *)
(* left behind.                                                            *)
(***************************************************************************)
Event(engine, agent_id, action, st, res) ==
    [engine   |-> engine,
     agent_id |-> agent_id,
     action   |-> action,
     before   |-> st,
     outcome  |-> res.outcome,
     input    |-> res.input,
     board    |-> res.board,
     ret      |-> res.ret,
     accessed |-> res.accessed,
     fns      |-> NoFns,
     calls    |-> <<>>]

NoEvent(engine, agent_id, st) ==
    Event(engine, agent_id, <<0, 0>>, st,
          [outcome |-> "none", input |-> st, board |-> st.board,
           ret |-> None, accessed |-> FALSE])

Init ==
    /\ board_size \in BoardSizes
    /\ state = initialize_state
    /\ pc = "for"
    /\ i = 1
    /\ moves = 0
    /\ call = NoEvent("init", 0, initialize_state)

MoveLimit == IF board_size = DefaultBoardSize THEN MaxMovesDefault ELSE MaxMoves

\* The for loop moves on to the next agent; after the last one the while
\* condition is tested again.
Advance(st) ==
    /\ i' = IF i = Len(agents) THEN 1 ELSE i + 1
    /\ pc' = IF i = Len(agents) /\ st.done THEN "exit" ELSE "for"

\* if state.need_jump(agent.agent_id): continue
Jump ==
    /\ pc = "for"
    /\ need_jump(state, agents[i])
    /\ Advance(state)
    /\ call' = NoEvent("jump", agents[i], state)
    /\ UNCHANGED <<board_size, state, moves>>

\* action = agent(state); state = step(state, agent.agent_id, action);
\* if state.done: break
Play ==
    /\ pc = "for"
    /\ moves < MoveLimit
    /\ ~need_jump(state, agents[i])
    /\ \E action \in _get_all_actions(state, agents[i]) :
          LET res == faster_step(state, agents[i], action)
          IN  /\ call' = Event("faster", agents[i], action, state, res)
              /\ res.outcome = "ok"
              /\ state' = res.ret[1]
              /\ IF res.ret[1].done
                 THEN pc' = "exit" /\ i' = i
                 ELSE Advance(res.ret[1])
    /\ moves' = moves + 1
    /\ UNCHANGED board_size

(***************************************************************************)
(* A run on the baseline engine (run_original of src/speed_test.py, line   *)
(* 91, or any other caller): othello.OthelloEnv().step is called on the    *)
(* state in hand.  Whatever the call does, an error or the return of None  *)
(* in place of a state, the run cannot go on from it.                      *)
(***************************************************************************)
CallStep ==
    /\ pc \in {"for", "exit"}
    /\ pc' = "end"
    /\ \E agent_id \in AgentIds, r \in Coords, c \in Coords, fns \in Fns :
          call' = [Event("original", agent_id, <<r, c>>, state,
                         step(state, agent_id, <<r, c>>))
                   EXCEPT !.fns = fns,
                          !.calls = step_calls(state, agent_id, <<r, c>>, fns)]
    /\ UNCHANGED <<board_size, state, i, moves>>

(***************************************************************************)
(* A caller (an agent, a renderer) asks the state in hand for the board as *)
(* one agent sees it.  The model does not follow that caller any further.  *)
(***************************************************************************)
CallPerspective ==
    /\ pc \in {"for", "exit"}
    /\ pc' = "end"
    /\ \E agent_id \in AgentIds :
          call' = Event("perspective", agent_id, <<0, 0>>, state,
                        perspective(state, agent_id))
    /\ UNCHANGED <<board_size, state, i, moves>>

Next == Jump \/ Play \/ CallStep \/ CallPerspective

Spec == Init /\ [][Next]_vars

(***************************************************************************)
(* Properties.                                                             *)
(***************************************************************************)

Exclusive(b) == b[0] \cap b[1] = {}

Original == call.engine = "original"

\* The last event is a call of step, of either engine.
StepCall == call.engine \in {"original", "faster"}

ValidCall == call.agent_id \in Players /\ OnBoard(call.action[1], call.action[2])

Target == <<call.action[1], call.action[2]>>

\* C1: no cell is set in both occupancy planes, neither in the state the
\* driver holds nor in the board a successful step has computed.
C1_OccupancyExclusive ==
    /\ Exclusive(state.board)
    /\ (call.outcome = "ok" => Exclusive(call.board))

\* C1 witness: a successful baseline step that has flipped stones.
C1_Witness ==
    /\ Original
    /\ call.outcome = "ok"
    /\ call.board # call.before.board

\* C2: a successful step changes the board in exactly these cells: the target
\* becomes a stone of the player, and the runs of the qualifying directions
\* move to the player's plane.
C2_FlipAtomicity ==
    (StepCall /\ call.outcome = "ok") =>
        call.board = Place(call.before.board, call.agent_id, Target)

\* C3: whether step returns or fails, the board and the legal-move planes of
\* the input state are after the call what they were before it.
C3_InputUnchanged == call.input = call.before

\* C3 witness: a baseline step that failed after it had already flipped
\* stones in its local board.
C3_Witness ==
    /\ Original
    /\ call.outcome = "IndexError"
    /\ call.board # call.before.board

LegalOf(st) ==
    st.legal_actions = [p \in Players |-> LegalPlane(st.board, p)]

\* C4: the state produced by initialize() or by a successful step carries,
\* for each player, the legal-move plane that the scan gives on its board.
C4_LegalitySound ==
    /\ LegalOf(state)
    /\ (StepCall /\ call.outcome = "ok")
          => (call.ret # None /\ LegalOf(call.ret[1]))

\* C5: on an empty in-range target and a valid player, step fails with
\* IllegalMove iff the target is not marked in the player's legal-move plane
\* of the input state, and succeeds iff it is marked.
C5_LegalityConsistent ==
    (ValidCall /\ StepCall
               /\ Target \notin Occupied(call.before.board)) =>
        /\ call.outcome = "IllegalMove"
              <=> Target \notin call.before.legal_actions[call.agent_id]
        /\ call.outcome = "ok"
              <=> Target \in call.before.legal_actions[call.agent_id]

DoneOf(st) ==
    st.done <=> (st.legal_actions[0] = {} /\ st.legal_actions[1] = {})

\* C6: in the state produced by initialize() or by a successful step, done is
\* true iff both legal-move planes are entirely false.
C6_TerminalDetection ==
    /\ DoneOf(state)
    /\ (StepCall /\ call.outcome = "ok")
          => (call.ret # None /\ DoneOf(call.ret[1]))

Central ==
    {board_size \div 2 - 1, board_size \div 2}
        \X {board_size \div 2 - 1, board_size \div 2}

Diagonal(plane) ==
    \A a \in plane, b \in plane : a # b => (a[1] # b[1] /\ a[2] # b[2])

\* C7: initialize() gives exactly four stones, on the four central cells, two
\* per player, each player's two on a diagonal, with the legal-move planes of
\* both players computed and done = false.
C7_StartingPosition ==
    call.engine = "init" =>
        /\ Occupied(state.board) = Central
        /\ Exclusive(state.board)
        /\ \A p \in Players :
              Cardinality(state.board[p]) = 2 /\ Diagonal(state.board[p])
        /\ LegalOf(state)
        /\ \A p \in Players : state.legal_actions[p] # {}
        /\ state.done = FALSE

\* C7 witness: the state of the default board right after initialize(), with
\* four legal cells for each player.
C7_Witness ==
    /\ call.engine = "init"
    /\ board_size = DefaultBoardSize
    /\ \A p \in Players : Cardinality(state.legal_actions[p]) = 4

\* The player whose turn it nominally is: player 0 at the start, afterwards
\* the other one than the player who moved or was skipped last.
Nominal == IF call.engine = "init" THEN 0 ELSE 1 - call.agent_id

\* C8: players move alternately, player 0 first, except that a player with no
\* legal move is skipped; a skip leaves board, legal-move planes and done
\* unchanged.
C8_TurnOrder ==
    [][/\ call'.engine = "faster" =>
             /\ call'.agent_id = Nominal
             /\ ~need_jump(state, Nominal)
       /\ call'.engine = "jump" =>
             /\ call'.agent_id = Nominal
             /\ need_jump(state, Nominal)
             /\ state' = state]_vars

\* C9: a step of a valid player on an in-range cell that holds a stone, of
\* either player, fails with CellOccupied.
C9_OccupiedTarget ==
    (Original /\ ValidCall /\ Target \in Occupied(call.before.board)) =>
        call.outcome = "CellOccupied"

\* C9 witness: a step onto the player's own stone, from which a direction
\* brackets an opposing run, failed with CellOccupied.
C9_Witness ==
    /\ Original
    /\ ValidCall
    /\ Target \in call.before.board[call.agent_id]
    /\ Captured(call.before.board, call.agent_id, Target) # {}
    /\ call.outcome = "CellOccupied"

\* C10: a step whose action has r or c outside [0, board_size) fails with
\* OutOfBounds, for any agent_id, and no board cell has been read or written.
C10_OutOfBounds ==
    (Original /\ ~OnBoard(call.action[1], call.action[2])) =>
        /\ call.outcome = "OutOfBounds"
        /\ ~call.accessed
        /\ call.board = call.before.board

\* C10 witness: a step with a negative row failed with OutOfBounds although
\* the cell that the negative index designates is empty.
C10_Witness ==
    /\ Original
    /\ call.action[1] < 0
    /\ OnBoard(0, call.action[2])
    /\ CellAt(call.action[1], call.action[2]) \notin Occupied(call.before.board)
    /\ call.outcome = "OutOfBounds"

\* C11: a step on an in-range action whose agent_id is not 0 or 1 fails with
\* InvalidPlayer, and no channel of the board has been indexed.
C11_InvalidPlayer ==
    (Original /\ OnBoard(call.action[1], call.action[2])
              /\ call.agent_id \notin Players) =>
        /\ call.outcome = "InvalidPlayer"
        /\ ~call.accessed

\* C11 witness: a negative agent_id on an in-range action was refused with
\* InvalidPlayer.
C11_Witness ==
    /\ Original
    /\ OnBoard(call.action[1], call.action[2])
    /\ call.agent_id < 0
    /\ call.outcome = "InvalidPlayer"

FourErrors == {"OutOfBounds", "InvalidPlayer", "CellOccupied", "IllegalMove"}

\* C12: step either returns a new GameState or fails with exactly one of
\* OutOfBounds, InvalidPlayer, CellOccupied, IllegalMove; there is no other
\* failure and no missing result.
C12_Totality ==
    StepCall =>
        \/ call.outcome = "ok" /\ call.ret # None
        \/ call.outcome \in FourErrors /\ call.ret = None

\* The board with the planes relabelled for a player: plane 0 the player's
\* stones, plane 1 the opponent's, every stone on its own cell.
Relabelled(b, p) == [q \in Players |-> IF q = 0 THEN b[p] ELSE b[1 - p]]

\* C13: perspective(p), p = 0 or 1, returns the board with the planes
\* relabelled for p; no cell moves to a mirrored or rotated coordinate.
C13_PerspectiveRelabels ==
    (call.engine = "perspective" /\ call.agent_id \in Players) =>
        /\ call.outcome = "ok"
        /\ call.ret = Some(Relabelled(call.before.board, call.agent_id))

\* The stones that the last call of step moved into the player's channel of
\* the board it computed.
Flipped == call.board[call.agent_id] \ call.before.board[call.agent_id]

\* C14: from the initial 8x8 state, step by player 0 at (2,3) succeeds, flips
\* exactly the opposing stone at (3,3), changes no other stone that was on the
\* board, and yields a state whose legal-move plane for player 1 does not
\* include (2,3).
C14_OpeningMove ==
    (/\ Original
     /\ board_size = DefaultBoardSize
     /\ call.before = initialize_state
     /\ call.agent_id = 0
     /\ call.action = <<2, 3>>) =>
        /\ call.outcome = "ok"
        /\ call.before.board[1] \ call.board[1] = {<<3, 3>>}
        /\ call.before.board[0] \subseteq call.board[0]
        /\ call.board[1] \subseteq call.before.board[1]
        /\ call.ret # None
        /\ <<2, 3>> \notin call.ret[1].legal_actions[1]

\* The names of the callbacks a call ran, in order.
CallNames == [k \in DOMAIN call.calls |-> call.calls[k].fn]

\* C15: a call of step runs pre_step_fn, when given, exactly once and first,
\* with the input state, agent_id and action, also when the step fails; it
\* runs post_step_fn, when given, exactly once after a successful step, with
\* the new state, agent_id and action, and never after a failed one.
C15_CallbackOrder ==
    Original =>
        /\ CallNames =
              (IF call.fns.pre_step_fn THEN <<"pre_step_fn">> ELSE << >>)
              \o (IF call.fns.post_step_fn /\ call.outcome = "ok"
                  THEN <<"post_step_fn">> ELSE << >>)
        /\ \A k \in DOMAIN call.calls :
              /\ call.calls[k].agent_id = call.agent_id
              /\ call.calls[k].action = call.action
              /\ (call.calls[k].fn = "pre_step_fn" =>
                    call.calls[k].state = call.before)
              /\ (call.calls[k].fn = "post_step_fn" =>
                    call.ret # None /\ call.calls[k].state = call.ret[1])

\* C16: on the same state, player and action the baseline engine and the
\* faster engine give the same outcome and the same resulting state (board,
\* legal-move planes, done).
C16_VariantEquivalence ==
    Original =>
        LET other == faster_step(call.before, call.agent_id, call.action)
        IN  /\ call.outcome = other.outcome
            /\ call.ret = other.ret

\* C17: the scan never wraps around an edge: a step is accepted only when a
\* direction qualifies on the board itself, and every stone it flips lies in
\* such a run; stones on the far side are never counted.
C17_NoWrapAround ==
    (Original /\ ValidCall /\ call.outcome = "ok") =>
        /\ Captured(call.before.board, call.agent_id, Target) # {}
        /\ Flipped \subseteq Captured(call.before.board, call.agent_id, Target)

\* C18: a successful step of player p flips k >= 1 stones: the opponent has k
\* stones less, p has k + 1 more, and the board one stone more.
C18_StoneCount ==
    (StepCall /\ call.outcome = "ok") =>
        LET p == call.agent_id
            k == Cardinality(call.before.board[1 - p] \ call.board[1 - p])
        IN  /\ k >= 1
            /\ Cardinality(call.board[1 - p])
                  = Cardinality(call.before.board[1 - p]) - k
            /\ Cardinality(call.board[p])
                  = Cardinality(call.before.board[p]) + k + 1
            /\ Cardinality(Occupied(call.board))
                  = Cardinality(Occupied(call.before.board)) + 1

\* What the driver hands to step: the id of the agent whose turn it is in the
\* for loop and a cell that RandomAgent took from that agent's own legal-move
\* plane.
DriverChoice ==
    /\ call.agent_id \in Players
    /\ Original => call.agent_id = agents[i]
    /\ Target \in _get_all_actions(call.before, call.agent_id)

\* C19: the driver loop ends only in a state with done = true, after at most
\* board_size * board_size - 4 successful steps, and in a state that is not
\* done at least one of the two players is not skipped.
C19_GameTermination ==
    /\ moves <= board_size * board_size - 4
    /\ ~state.done => \E p \in Players : ~need_jump(state, p)
    /\ pc = "exit" => state.done
    /\ (pc = "end" /\ Original /\ DriverChoice) => state.done

\* C20: the driver calls step only for an agent that has a legal cell and on
\* a state that is not done, and every such call succeeds and hands back the
\* next state.
C20_DriverSafety ==
    (StepCall /\ DriverChoice) =>
        /\ ~call.before.done
        /\ ~need_jump(call.before, call.agent_id)
        /\ call.outcome = "ok"
        /\ call.ret # None

====
